---------------------------- MODULE Spec2Model ----------------------------
(***************************************************************************)
(* Model of the markdown extraction engine of src/src/scraper.ts           *)
(* (scrapeLinkedInProfile and the six section parsers it calls).           *)
(*                                                                         *)
(* A JavaScript string is a sequence of one-character strings, so that     *)
(* every regular expression of the source is modelled by what it matches,  *)
(* character by character.  The two non-ASCII characters of the source's   *)
(* patterns are written BULLET (U+2022) and ENDASH (U+2013).               *)
(* An optional value (T | undefined) is None or Some(v).                   *)
(***************************************************************************)
EXTENDS Naturals, Sequences, FiniteSets, TLC

---------------------------------------------------------------------------
(* Characters and character classes of the source's patterns.              *)

NL == "\n"
BULLET == "u2022"
ENDASH == "u2013"

\* \s
SpaceChars == {" ", "\n", "\t", "\r"}
\* the complement of "."
LineTerminators == {"\n", "\r"}
\* \d
DigitChars == {"0", "1", "2", "3", "4", "5", "6", "7", "8", "9"}
\* [-•*]
BulletChars == {"-", BULLET, "*"}
\* [-–]
DashChars == {"-", ENDASH}

None == <<>>
Some(v) == <<v>>

\* The /i flag: both sides of a comparison are case-folded.
LowerMap ==
    ("A" :> "a") @@ ("B" :> "b") @@ ("C" :> "c") @@ ("D" :> "d") @@
    ("E" :> "e") @@ ("F" :> "f") @@ ("G" :> "g") @@ ("H" :> "h") @@
    ("I" :> "i") @@ ("J" :> "j") @@ ("K" :> "k") @@ ("L" :> "l") @@
    ("M" :> "m") @@ ("N" :> "n") @@ ("O" :> "o") @@ ("P" :> "p") @@
    ("Q" :> "q") @@ ("R" :> "r") @@ ("S" :> "s") @@ ("T" :> "t") @@
    ("U" :> "u") @@ ("V" :> "v") @@ ("W" :> "w") @@ ("X" :> "x") @@
    ("Y" :> "y") @@ ("Z" :> "z")

ToLower(c) == IF c \in DOMAIN LowerMap THEN LowerMap[c] ELSE c

Min(S) == CHOOSE x \in S : \A y \in S : x <= y
Max(S) == CHOOSE x \in S : \A y \in S : x >= y

\* s.slice(from - 1, to): the characters from..to (1-based, inclusive).
Slice(s, from, to) == IF from > to THEN <<>> ELSE SubSeq(s, from, to)

\* The literal lit occurs in s at position i.
MatchAt(s, i, lit) ==
    /\ i >= 1
    /\ i + Len(lit) - 1 <= Len(s)
    /\ \A k \in 1..Len(lit) : s[i + k - 1] = lit[k]

\* The same under the /i flag.
MatchAtI(s, i, lit) ==
    /\ i >= 1
    /\ i + Len(lit) - 1 <= Len(s)
    /\ \A k \in 1..Len(lit) : ToLower(s[i + k - 1]) = ToLower(lit[k])

\* One of the alternatives (a set of literals) occurs in s at i, /i.
AnyMatchAtI(s, i, alts) == \E a \in alts : MatchAtI(s, i, a)

\* Length of the longest run of characters of class cls starting at i:
\* it ends before the first character outside cls, or with s.
RunIn(s, i, cls) ==
    LET E == {j \in i..Len(s) : s[j] \notin cls}
    IN  IF i > Len(s) THEN 0
        ELSE IF E = {} THEN Len(s) - i + 1
        ELSE Min(E) - i

\* Length of the longest run of characters outside stops starting at i.
RunNotIn(s, i, stops) ==
    LET E == {j \in i..Len(s) : s[j] \in stops}
    IN  IF i > Len(s) THEN 0
        ELSE IF E = {} THEN Len(s) - i + 1
        ELSE Min(E) - i

\* String.prototype.trim
Trim(s) ==
    LET B == {j \in 1..Len(s) : s[j] \notin SpaceChars}
    IN  IF B = {} THEN <<>> ELSE SubSeq(s, Min(B), Max(B))

\* String.prototype.includes
Includes(s, lit) == \E i \in 1..(Len(s) + 1) : MatchAt(s, i, lit)

\* String.prototype.startsWith
StartsWith(s, lit) == MatchAt(s, 1, lit)

\* s.split(sep) for a pattern that is one of the literals of seps (no two
\* of which match at the same position): the pieces between the leftmost
\* non-overlapping matches.  p is the start of the current piece, q the
\* position of the next match.
SepLenAt(s, q, seps) ==
    IF \E m \in seps : MatchAt(s, q, m)
    THEN Len(CHOOSE m \in seps : MatchAt(s, q, m))
    ELSE 0

RECURSIVE SplitFrom(_, _, _)
SplitFrom(s, p, seps) ==
    LET Q == {q \in p..Len(s) : SepLenAt(s, q, seps) > 0}
        q == Min(Q)
    IN  IF Q = {} THEN <<Slice(s, p, Len(s))>>
        ELSE <<Slice(s, p, q - 1)>> \o SplitFrom(s, q + SepLenAt(s, q, seps), seps)

Split(s, seps) == SplitFrom(s, 1, seps)

\* Array.prototype.join
RECURSIVE Join(_, _)
Join(parts, sep) ==
    IF parts = <<>> THEN <<>>
    ELSE IF Len(parts) = 1 THEN parts[1]
    ELSE parts[1] \o sep \o Join(Tail(parts), sep)

\* s.replace(/\*\*/g, "")
StripBold(s) == Join(Split(s, {<<"*", "*">>}), <<>>)

\* arr.map((p) => p.trim())
RECURSIVE MapTrim(_)
MapTrim(parts) ==
    IF parts = <<>> THEN <<>> ELSE <<Trim(Head(parts))>> \o MapTrim(Tail(parts))

\* arr.filter((e) => e.trim()): the elements that are not blank.
RECURSIVE FilterNonBlank(_)
FilterNonBlank(parts) ==
    IF parts = <<>> THEN <<>>
    ELSE IF Trim(Head(parts)) # <<>>
         THEN <<Head(parts)>> \o FilterNonBlank(Tail(parts))
         ELSE FilterNonBlank(Tail(parts))

\* [...new Set(arr)]: a Set iterates in insertion order, so the first
\* occurrence of every value is kept.
RECURSIVE DedupeInto(_, _)
DedupeInto(acc, rest) ==
    IF rest = <<>> THEN acc
    ELSE IF \E i \in 1..Len(acc) : acc[i] = Head(rest)
         THEN DedupeInto(acc, Tail(rest))
         ELSE DedupeInto(Append(acc, Head(rest)), Tail(rest))

\* A variant that compares a value with the one before it only.
RECURSIVE DedupeAdjacent(_)
DedupeAdjacent(arr) ==
    IF Len(arr) <= 1 THEN arr
    ELSE IF arr[Len(arr)] = arr[Len(arr) - 1]
         THEN DedupeAdjacent(SubSeq(arr, 1, Len(arr) - 1))
         ELSE Append(DedupeAdjacent(SubSeq(arr, 1, Len(arr) - 1)), arr[Len(arr)])

Dedupe(arr) == DedupeInto(<<>>, arr)

---------------------------------------------------------------------------
(* Section location: /## (?:A|B)\n([\s\S]*?)(?=\n## |$)/i                  *)

H2 == <<"#", "#", " ">>
NextH2 == <<"\n", "#", "#", " ">>

\* The header part of the pattern, "## <alias>\n", for each alias.
HeaderPatterns(aliases) == {H2 \o a \o <<NL>> : a \in aliases}

\* Position of the leftmost match of the header part, 0 when none.  The
\* pattern is not anchored to a line start.
HeaderPos(text, aliases) ==
    LET P == {i \in 1..Len(text) : AnyMatchAtI(text, i, HeaderPatterns(aliases))}
    IN  IF P = {} THEN 0 ELSE Min(P)

\* First position after the matched header.
BodyStart(text, aliases) ==
    LET i == HeaderPos(text, aliases)
        h == CHOOSE h \in HeaderPatterns(aliases) : MatchAtI(text, i, h)
    IN  i + Len(h)

\* The lazy group stops at the first position where "\n## " follows, or
\* at the end of the text.
BodyEnd(text, b) ==
    LET E == {j \in b..Len(text) : MatchAt(text, j, NextH2)}
    IN  IF E = {} THEN Len(text) + 1 ELSE Min(E)

HasSection(text, aliases) == HeaderPos(text, aliases) # 0

\* Capture group 1 of the section pattern.
SectionBody(text, aliases) ==
    LET b == BodyStart(text, aliases)
    IN  Slice(text, b, BodyEnd(text, b) - 1)


\* The alternatives of each section's header pattern (an optional "s?" or
\* "(?:ing)?" is written out as the alternatives it stands for).
ExperienceAliases ==
    { <<"W","o","r","k"," ","E","x","p","e","r","i","e","n","c","e">>,
      <<"E","x","p","e","r","i","e","n","c","e">> }
EducationAliases == { <<"E","d","u","c","a","t","i","o","n">> }
ProjectAliases ==
    { <<"P","r","o","j","e","c","t","s">>, <<"P","r","o","j","e","c","t">> }
VolunteerAliases ==
    { <<"V","o","l","u","n","t","e","e","r">>,
      <<"V","o","l","u","n","t","e","e","r","i","n","g">>,
      <<"V","o","l","u","n","t","e","e","r"," ","E","x","p","e","r","i","e","n","c","e">> }
SkillAliases == { <<"S","k","i","l","l","s">>, <<"S","k","i","l","l">> }
InterestAliases ==
    { <<"I","n","t","e","r","e","s","t","s">>, <<"I","n","t","e","r","e","s","t">>,
      <<"F","o","l","l","o","w","i","n","g">>,
      <<"G","r","o","u","p","s">>, <<"G","r","o","u","p">>,
      <<"C","o","m","p","a","n","i","e","s"," ","F","o","l","l","o","w","e","d">>,
      <<"C","o","m","p","a","n","i","e"," ","F","o","l","l","o","w","e","d">> }
AboutAliases ==
    { <<"A","b","o","u","t"," ","m","e">>, <<"A","b","o","u","t">>,
      <<"S","u","m","m","a","r","y">> }

---------------------------------------------------------------------------
(* Pieces shared by the entry patterns.                                    *)

NoLink == [ok |-> FALSE, label |-> <<>>, url |-> <<>>, last |-> 0]

\* \[([^\]]+)\]\((<prefix>[^\)]{minRest,})\) tried at position p.  Both
\* classes exclude the literal that follows them, so the greedy runs are
\* the only way to match.  last is the position of the closing ")".
LinkAt(s, p, prefix, minRest) ==
    LET n1 == RunNotIn(s, p + 1, {"]"})
        u0 == p + 1 + n1 + 2
        u1 == u0 + Len(prefix)
        n2 == RunNotIn(s, u1, {")"})
    IN  IF /\ MatchAt(s, p, <<"[">>)
           /\ n1 >= 1
           /\ MatchAt(s, p + 1 + n1, <<"]", "(">>)
           /\ MatchAt(s, u0, prefix)
           /\ n2 >= minRest
           /\ MatchAt(s, u1 + n2, <<")">>)
        THEN [ok |-> TRUE, label |-> Slice(s, p + 1, p + n1),
              url |-> Slice(s, u0, u1 + n2 - 1), last |-> u1 + n2]
        ELSE NoLink

\* Length of the first line: the longest prefix "." can match.
FirstLineLen(s) == RunNotIn(s, 1, LineTerminators)

\* /(\d{4})\s*[-–]\s*(\d{4}|Present)/i tried at position i: the length of
\* the match, 0 when it fails.
FourDigitsAt(s, i) ==
    i + 3 <= Len(s) /\ \A k \in 0..3 : s[i + k] \in DigitChars

DateLenAt(s, i) ==
    LET d == i + 4 + RunIn(s, i + 4, SpaceChars)
        q == d + 1 + RunIn(s, d + 1, SpaceChars)
    IN  IF FourDigitsAt(s, i) /\ d <= Len(s) /\ s[d] \in DashChars
        THEN IF FourDigitsAt(s, q) THEN q + 4 - i
             ELSE IF MatchAtI(s, q, <<"p","r","e","s","e","n","t">>) THEN q + 7 - i
             ELSE 0
        ELSE 0

\* entry.match(<the year range pattern>): match[0] of the leftmost match.
YearRange(s) ==
    LET P == {i \in 1..Len(s) : DateLenAt(s, i) > 0}
    IN  IF P = {} THEN None
        ELSE Some(Slice(s, Min(P), Min(P) + DateLenAt(s, Min(P)) - 1))

\* /<label>:\s*([^\n]+)/i tried at position i, for the literal label lab:
\* the first and last position of group 1, <<0, 0>> when it fails.  \s* is
\* greedy and gives characters back until one that is no newline follows.
LabelledAt(s, i, lab) ==
    LET v == i + Len(lab) + 1
        w == RunIn(s, v, SpaceChars)
        J == {j \in 0..w : v + j <= Len(s) /\ s[v + j] # NL}
    IN  IF MatchAtI(s, i, lab \o <<":">>) /\ J # {}
        THEN <<v + Max(J), v + Max(J) + RunNotIn(s, v + Max(J), {NL}) - 1>>
        ELSE <<0, 0>>

\* The leftmost match of /(?:<lab1>|<lab2>):\s*([^\n]+)/i as
\* <<start of the match, first of group 1, last of group 1>>, or <<>>.
Labelled(s, labs) ==
    LET P == {i \in 1..Len(s) : \E l \in labs : LabelledAt(s, i, l)[1] > 0}
        i == Min(P)
        l == CHOOSE l \in labs : LabelledAt(s, i, l)[1] > 0
    IN  IF P = {} THEN <<>> ELSE <<i>> \o LabelledAt(s, i, l)

DateLabels == { <<"d","a","t","e">>, <<"d","u","r","a","t","i","o","n">> }

\* entry.match(yearRange) || entry.match(/(?:Date|Duration):\s*([^\n]+)/i),
\* then match[0].trim()
DateRangeOrLabel(s) ==
    IF YearRange(s) # None THEN Some(Trim(YearRange(s)[1]))
    ELSE IF Labelled(s, DateLabels) # <<>>
         THEN Some(Trim(Slice(s, Labelled(s, DateLabels)[1], Labelled(s, DateLabels)[3])))
         ELSE None

---------------------------------------------------------------------------
(* parseWorkExperience                                                     *)

ExperienceMarkers == { <<"-"," ","#","#","#"," ">> }

\* workSection.split(/- ### /).filter((e) => e.trim())
ExperienceEntries(section) == FilterNonBlank(Split(section, ExperienceMarkers))

\* /^(.+?) at \[([^\]]+)\]\(([^\)]+)\)/: the lazy group takes the fewest
\* characters of the first line after which the rest matches.
ExpLinkedK(entry) ==
    {k \in 1..FirstLineLen(entry) :
        MatchAt(entry, k + 1, <<" ","a","t"," ">>)
        /\ LinkAt(entry, k + 5, <<>>, 1).ok}

\* /^(.+?) at ([^\n]+)/
PlainK(entry) ==
    {k \in 1..FirstLineLen(entry) :
        MatchAt(entry, k + 1, <<" ","a","t"," ">>)
        /\ RunNotIn(entry, k + 5, {NL}) >= 1}

PlainGroup2(entry, k) == Slice(entry, k + 5, k + 4 + RunNotIn(entry, k + 5, {NL}))

\* One iteration of the loop: the strings it pushes (none or one).
ExperienceOfEntry(entry) ==
    IF ExpLinkedK(entry) # {}
    THEN LET k == Min(ExpLinkedK(entry))
         IN  << Trim(Slice(entry, 1, k)) \o <<" ","a","t"," ">>
                \o Trim(LinkAt(entry, k + 5, <<>>, 1).label) >>
    ELSE IF PlainK(entry) # {}
    THEN LET k == Min(PlainK(entry))
         IN  << Trim(Slice(entry, 1, k)) \o <<" ","a","t"," ">>
                \o Trim(PlainGroup2(entry, k)) >>
    ELSE <<>>

---------------------------------------------------------------------------
(* parseEducation                                                          *)

\* (?:-\s*)?###\s+ tried at position r: the position after the match, 0
\* when it fails.
EduMarkerTail(s, r) ==
    LET h == IF MatchAt(s, r, <<"-">>) THEN r + 1 + RunIn(s, r + 1, SpaceChars) ELSE r
        w == RunIn(s, h + 3, SpaceChars)
    IN  IF MatchAt(s, h, <<"#","#","#">>) /\ w >= 1 THEN h + 3 + w ELSE 0

\* /(?:^|\n)(?:-\s*)?###\s+/ tried at position q (no /m flag: ^ is the
\* start of the section only).
EduMarkerEnd(s, q) ==
    IF q = 1 /\ EduMarkerTail(s, 1) > 0 THEN EduMarkerTail(s, 1)
    ELSE IF MatchAt(s, q, <<NL>>) THEN EduMarkerTail(s, q + 1)
    ELSE 0

RECURSIVE EduSplitFrom(_, _)
EduSplitFrom(s, p) ==
    LET Q == {q \in p..Len(s) : EduMarkerEnd(s, q) > 0}
        q == Min(Q)
    IN  IF Q = {} THEN <<Slice(s, p, Len(s))>>
        ELSE <<Slice(s, p, q - 1)>> \o EduSplitFrom(s, EduMarkerEnd(s, q))

\* eduSection.split(<marker>).filter((e) => e.trim())
EducationEntries(section) == FilterNonBlank(EduSplitFrom(section, 1))

\* \s+at\s+ tried at position p: <<position after "at", length of the run
\* of white space there>>, <<0, 0>> when it fails.  A shorter first \s+
\* leaves white space, not "at", to follow.
EduAtTail(s, p) ==
    LET w1 == RunIn(s, p, SpaceChars)
        p2 == p + w1 + 2
        w2 == RunIn(s, p2, SpaceChars)
    IN  IF w1 >= 1 /\ MatchAt(s, p + w1, <<"a","t">>) /\ w2 >= 1
        THEN <<p2, w2>> ELSE <<0, 0>>

\* Format 1: /^(.+?)\s+at\s+\[([^\]]+)\]\(([^\)]*)\)/
EduLinkedK(entry) ==
    {k \in 1..FirstLineLen(entry) :
        LET t == EduAtTail(entry, k + 1)
        IN  t[1] > 0 /\ LinkAt(entry, t[1] + t[2], <<>>, 0).ok}

EduLinkedLink(entry, k) ==
    LET t == EduAtTail(entry, k + 1) IN LinkAt(entry, t[1] + t[2], <<>>, 0)

\* Format 2: /^(.+?)\s+at\s+([^\n\[]+)/.  The second \s+ is greedy and
\* gives white space back until a character of [^\n\[] follows it: the
\* position group 2 starts at, 0 when there is none.
EduPlainStart(entry, k) ==
    LET t == EduAtTail(entry, k + 1)
        J == {j \in 1..t[2] :
                 t[1] + j <= Len(entry) /\ entry[t[1] + j] \notin {NL, "["}}
    IN  IF t[1] > 0 /\ J # {} THEN t[1] + Max(J) ELSE 0

EduPlainK(entry) == {k \in 1..FirstLineLen(entry) : EduPlainStart(entry, k) > 0}

EduPlainSchool(entry, k) ==
    LET b == EduPlainStart(entry, k)
    IN  Slice(entry, b, b + RunNotIn(entry, b, {NL, "["}) - 1)

\* arr.filter((l) => l)
RECURSIVE FilterNonEmpty(_)
FilterNonEmpty(parts) ==
    IF parts = <<>> THEN <<>>
    ELSE IF Head(parts) # <<>>
         THEN <<Head(parts)>> \o FilterNonEmpty(Tail(parts))
         ELSE FilterNonEmpty(Tail(parts))

\* Degree and field of formats 1 and 2: split on "||", else on ",".
DegreeAndField(df) ==
    LET sep == IF Includes(df, <<"|","|">>) THEN <<"|","|">> ELSE <<",">>
        parts == MapTrim(Split(df, {sep}))
    IN  IF Includes(df, <<"|","|">>) \/ Includes(df, <<",">>)
        THEN [degree |-> Some(parts[1]),
              fieldOfStudy |-> Some(Join(Tail(parts), <<",", " ">>))]
        ELSE [degree |-> Some(df), fieldOfStudy |-> None]

\* Format 3: the lines after the link; the first one longer than two
\* characters that does not start with [-•\d] gives degree and field.
RECURSIVE DegreeFromLines(_)
DegreeFromLines(lines) ==
    IF lines = <<>> THEN [degree |-> None, fieldOfStudy |-> None]
    ELSE LET line == Head(lines)
             parts == FilterNonEmpty(MapTrim(Split(line, {<<",">>, <<"|">>})))
         IN  IF Len(line) > 2 /\ line[1] \notin ({"-", BULLET} \cup DigitChars)
             THEN [degree |-> IF parts = <<>> THEN None ELSE Some(parts[1]),
                   fieldOfStudy |-> IF Len(parts) > 1
                                    THEN Some(Join(Tail(parts), <<",", " ">>))
                                    ELSE None]
             ELSE DegreeFromLines(Tail(lines))

\* x || undefined, for a string x
OrUndefined(x) == IF x = <<>> THEN None ELSE Some(x)

\* A variant that tries the plain "at" format before the linked one.
EduTierPlainFirst(entry) ==
    IF EduPlainK(entry) # {} THEN 2
    ELSE IF EduLinkedK(entry) # {} THEN 1
    ELSE IF LinkAt(entry, 1, <<>>, 0).ok THEN 3
    ELSE IF RunNotIn(entry, 1, {NL}) >= 1 THEN 4
    ELSE 0

\* A variant without the plain school name format.
EduTierNoPlainSchool(entry) ==
    IF EduLinkedK(entry) # {} THEN 1
    ELSE IF EduPlainK(entry) # {} THEN 2
    ELSE IF LinkAt(entry, 1, <<>>, 0).ok THEN 3
    ELSE 0

\* The tier whose pattern is the first to match the entry: 1..4, or 0.
EduTier(entry) ==
    IF EduLinkedK(entry) # {} THEN 1
    ELSE IF EduPlainK(entry) # {} THEN 2
    ELSE IF LinkAt(entry, 1, <<>>, 0).ok THEN 3
    ELSE IF RunNotIn(entry, 1, {NL}) >= 1 THEN 4
    ELSE 0

\* school, schoolUrl, degree and fieldOfStudy as the if/else chain of the
\* loop body leaves them.
EduFields(entry) ==
    IF EduTier(entry) = 1
    THEN LET k == Min(EduLinkedK(entry))
             l == EduLinkedLink(entry, k)
             d == DegreeAndField(Trim(Slice(entry, 1, k)))
         IN  [school |-> Trim(l.label), schoolUrl |-> OrUndefined(l.url),
              degree |-> d.degree, fieldOfStudy |-> d.fieldOfStudy]
    ELSE IF EduTier(entry) = 2
    THEN LET k == Min(EduPlainK(entry))
             d == DegreeAndField(Trim(Slice(entry, 1, k)))
         IN  [school |-> Trim(EduPlainSchool(entry, k)), schoolUrl |-> None,
              degree |-> d.degree, fieldOfStudy |-> d.fieldOfStudy]
    ELSE IF EduTier(entry) = 3
    THEN LET l == LinkAt(entry, 1, <<>>, 0)
             rest == Slice(entry, l.last + 1, Len(entry))
             d == DegreeFromLines(FilterNonEmpty(MapTrim(Split(rest, {<<NL>>}))))
         IN  [school |-> Trim(l.label), schoolUrl |-> OrUndefined(l.url),
              degree |-> d.degree, fieldOfStudy |-> d.fieldOfStudy]
    ELSE IF EduTier(entry) = 4
    THEN [school |-> Trim(Slice(entry, 1, RunNotIn(entry, 1, {NL}))),
          schoolUrl |-> None, degree |-> None, fieldOfStudy |-> None]
    ELSE [school |-> <<>>, schoolUrl |-> None, degree |-> None,
          fieldOfStudy |-> None]

\* A variant without the "if (!school) continue" guard.
EducationOfEntryUnguarded(entry) ==
    LET f == EduFields(entry)
    IN  << [school |-> f.school, degree |-> f.degree,
            fieldOfStudy |-> f.fieldOfStudy,
            dateRange |-> YearRange(entry),
            schoolUrl |-> f.schoolUrl] >>

\* One iteration of the loop: the entries it pushes (none or one).
EducationOfEntry(entry) ==
    LET f == EduFields(entry)
    IN  IF f.school = <<>> THEN <<>>
        ELSE << [school |-> f.school, degree |-> f.degree,
                 fieldOfStudy |-> f.fieldOfStudy,
                 dateRange |-> YearRange(entry),
                 schoolUrl |-> f.schoolUrl] >>

---------------------------------------------------------------------------
(* parseProjects                                                           *)

ItemMarkers == { <<"-"," ","#","#","#"," ">>, <<"-"," ","*","*"," ">> }

\* projectSection.split(/- (?:###|\*\*) /).filter((e) => e.trim())
ProjectEntries(section) == FilterNonBlank(Split(section, ItemMarkers))

\* entry.match(/^([^\n\[]+)/) || entry.match(/^\[([^\]]+)\]/), then
\* nameMatch[1].trim().replace(/\*\*/g, ""), or "" without a match
ProjectName(entry) ==
    LET n == RunNotIn(entry, 1, {NL, "["})
        m == RunNotIn(entry, 2, {"]"})
    IN  IF n >= 1 THEN StripBold(Trim(Slice(entry, 1, n)))
        ELSE IF MatchAt(entry, 1, <<"[">>) /\ m >= 1 /\ MatchAt(entry, 2 + m, <<"]">>)
             THEN StripBold(Trim(Slice(entry, 2, 1 + m)))
             ELSE <<>>

\* /\n\s*([^-\n][^\n]+)/ tried at position i: where group 1 starts, 0 when
\* the pattern fails.  \s* gives white space back until two characters
\* that fit follow it.
DescStartAt(s, i) ==
    LET w == RunIn(s, i + 1, SpaceChars)
        J == {j \in 0..w :
                 /\ i + 2 + j <= Len(s)
                 /\ s[i + 1 + j] \notin {"-", NL}
                 /\ s[i + 2 + j] # NL}
    IN  IF MatchAt(s, i, <<NL>>) /\ J # {} THEN i + 1 + Max(J) ELSE 0

ProjectDescription(entry) ==
    LET P == {i \in 1..Len(entry) : DescStartAt(entry, i) > 0}
        b == DescStartAt(entry, Min(P))
    IN  IF P = {} THEN None
        ELSE Some(Trim(Slice(entry, b, b + RunNotIn(entry, b, {NL}) - 1)))

AssocLabels ==
    { <<"a","s","s","o","c","i","a","t","e","d"," ","w","i","t","h">>,
      <<"a","t">>, <<"f","o","r">> }

\* \[?([^\]\n]+) tried at position r: where group 1 starts, 0 when it
\* fails.  The optional "[" is taken when the group can still match.
AssocGroupAt(s, r) ==
    IF MatchAt(s, r, <<"[">>) /\ RunNotIn(s, r + 1, {"]", NL}) >= 1 THEN r + 1
    ELSE IF RunNotIn(s, r, {"]", NL}) >= 1 THEN r
    ELSE 0

\* /(?:Associated with|At|For):\s*\[?([^\]\n]+)\]?/i tried at position i
\* for the label lab: where group 1 starts, 0 when it fails.
AssocStartAt(s, i, lab) ==
    LET v == i + Len(lab) + 1
        w == RunIn(s, v, SpaceChars)
        J == {j \in 0..w : AssocGroupAt(s, v + j) > 0}
    IN  IF MatchAtI(s, i, lab \o <<":">>) /\ J # {}
        THEN AssocGroupAt(s, v + Max(J)) ELSE 0

ProjectAssociatedWith(entry) ==
    LET P == {i \in 1..Len(entry) : \E l \in AssocLabels : AssocStartAt(entry, i, l) > 0}
        l == CHOOSE l \in AssocLabels : AssocStartAt(entry, Min(P), l) > 0
        b == AssocStartAt(entry, Min(P), l)
    IN  IF P = {} THEN None
        ELSE Some(Trim(Slice(entry, b, b + RunNotIn(entry, b, {"]", NL}) - 1)))

\* One iteration of the loop: the entries it pushes (none or one).
ProjectOfEntry(entry) ==
    IF ProjectName(entry) = <<>> THEN <<>>
    ELSE << [name |-> ProjectName(entry),
             description |-> ProjectDescription(entry),
             dateRange |-> DateRangeOrLabel(entry),
             associatedWith |-> ProjectAssociatedWith(entry)] >>

---------------------------------------------------------------------------
(* parseVolunteering                                                       *)

\* volSection.split(/- (?:###|\*\*) /).filter((e) => e.trim())
VolunteerEntries(section) == FilterNonBlank(Split(section, ItemMarkers))

HttpsPrefix == <<"h","t","t","p","s",":","/","/">>

\* /^(.+?) at \[([^\]]+)\]\((https:\/\/[^\)]+)\)/
VolLinkedK(entry) ==
    {k \in 1..FirstLineLen(entry) :
        MatchAt(entry, k + 1, <<" ","a","t"," ">>)
        /\ LinkAt(entry, k + 5, HttpsPrefix, 1).ok}

CauseLabels == { <<"c","a","u","s","e">>, <<"f","o","c","u","s">> }

\* role, organization and organizationUrl as the if/else of the loop body
\* leaves them.
VolFields(entry) ==
    IF VolLinkedK(entry) # {}
    THEN LET k == Min(VolLinkedK(entry))
             l == LinkAt(entry, k + 5, HttpsPrefix, 1)
         IN  [role |-> Trim(Slice(entry, 1, k)), organization |-> Trim(l.label),
              organizationUrl |-> Some(l.url)]
    ELSE IF PlainK(entry) # {}
    THEN LET k == Min(PlainK(entry))
         IN  [role |-> StripBold(Trim(Slice(entry, 1, k))),
              organization |-> Trim(PlainGroup2(entry, k)),
              organizationUrl |-> None]
    ELSE [role |-> <<>>, organization |-> <<>>, organizationUrl |-> None]

VolCause(entry) ==
    LET m == Labelled(entry, CauseLabels)
    IN  IF m = <<>> THEN None ELSE Some(Trim(Slice(entry, m[2], m[3])))

\* A variant without the "if (!role || !organization) continue" guard.
VolunteerOfEntryUnguarded(entry) ==
    LET f == VolFields(entry)
    IN  << [role |-> f.role, organization |-> f.organization,
            cause |-> VolCause(entry),
            dateRange |-> DateRangeOrLabel(entry),
            organizationUrl |-> f.organizationUrl] >>

\* One iteration of the loop: the entries it pushes (none or one).
VolunteerOfEntry(entry) ==
    LET f == VolFields(entry)
    IN  IF f.role = <<>> \/ f.organization = <<>> THEN <<>>
        ELSE << [role |-> f.role, organization |-> f.organization,
                 cause |-> VolCause(entry),
                 dateRange |-> DateRangeOrLabel(entry),
                 organizationUrl |-> f.organizationUrl] >>

---------------------------------------------------------------------------
(* parseSkills and parseInterests                                          *)

\* /[-•*]\s*([^<stops>]+)/ tried at position i: where group 1 starts, 0
\* when it fails.  \s* gives white space back until a character outside
\* stops follows it.
BulletStartAt(s, i, stops) ==
    LET w == RunIn(s, i + 1, SpaceChars)
        J == {j \in 0..w : i + 1 + j <= Len(s) /\ s[i + 1 + j] \notin stops}
    IN  IF i <= Len(s) /\ s[i] \in BulletChars /\ J # {}
        THEN i + 1 + Max(J) ELSE 0

\* matchAll of the pattern from position pos on: group 1 of every match,
\* each search starting where the previous match ended.
RECURSIVE BulletGroups(_, _, _)
BulletGroups(s, pos, stops) ==
    LET P == {i \in pos..Len(s) : BulletStartAt(s, i, stops) > 0}
        b == BulletStartAt(s, Min(P), stops)
        e == b + RunNotIn(s, b, stops) - 1
    IN  IF P = {} THEN <<>>
        ELSE <<Slice(s, b, e)>> \o BulletGroups(s, e + 1, stops)

\* The body of both bullet loops: trim, strip "**", and keep what is not
\* empty and does not start with "#".
RECURSIVE BulletItems(_)
BulletItems(groups) ==
    IF groups = <<>> THEN <<>>
    ELSE LET item == StripBold(Trim(Head(groups)))
         IN  IF item # <<>> /\ ~StartsWith(item, <<"#">>)
             THEN <<item>> \o BulletItems(Tail(groups))
             ELSE BulletItems(Tail(groups))

\* .filter((s) => s && !s.startsWith("#"))
RECURSIVE FilterPlainItems(_)
FilterPlainItems(parts) ==
    IF parts = <<>> THEN <<>>
    ELSE IF Head(parts) # <<>> /\ ~StartsWith(Head(parts), <<"#">>)
         THEN <<Head(parts)>> \o FilterPlainItems(Tail(parts))
         ELSE FilterPlainItems(Tail(parts))

\* The skills of the bullet pass over the section.
SkillBullets(section) == BulletItems(BulletGroups(section, 1, {NL}))

\* The comma/newline fallback.
SkillFallback(section) ==
    FilterPlainItems(MapTrim(Split(section, {<<",">>, <<NL>>})))

\* A variant that runs the fallback after the bullet pass in every case.
SkillCandidatesBoth(section) == SkillBullets(section) \o SkillFallback(section)

\* The array skills before the duplicates are removed.
SkillCandidates(section) ==
    IF SkillBullets(section) # <<>> THEN SkillBullets(section)
    ELSE SkillFallback(section)

\* [...new Set(skills)].filter((s) => s.length > 0)
SkillsOfSection(section) == FilterNonEmpty(Dedupe(SkillCandidates(section)))

\* matchAll(/\[([^\]]+)\]\([^\)]+\)/g): the trimmed, non-empty labels.
RECURSIVE LinkLabels(_, _)
LinkLabels(s, pos) ==
    LET P == {i \in pos..Len(s) : LinkAt(s, i, <<>>, 1).ok}
        l == LinkAt(s, Min(P), <<>>, 1)
    IN  IF P = {} THEN <<>>
        ELSE (IF Trim(l.label) # <<>> THEN <<Trim(l.label)>> ELSE <<>>)
             \o LinkLabels(s, l.last + 1)

\* The array interests before the duplicates are removed.
InterestCandidates(section) ==
    LinkLabels(section, 1) \o BulletItems(BulletGroups(section, 1, {NL, "["}))

\* [...new Set(interests)]
InterestsOfSection(section) == Dedupe(InterestCandidates(section))

---------------------------------------------------------------------------
(* The state of one call of scrapeLinkedInProfile.                         *)

VARIABLES
    text,          \* profileData.text || ""
    name,          \* profileData.author || ""
    pc,            \* the step the call is at
    about, headline,
    entries,       \* the entry blocks the running parser has still to visit
    entry,         \* the loop variable of the running parser
    experience, education, projects, volunteering, skills, interests,
    data,          \* the record the call resolves to
    calls,         \* how many calls of scrapeLinkedInProfile were made
    returned,      \* what the earlier calls were given and ended with
    apiKey,        \* process.env.EXASEARCH_API_KEY is set
    rq,            \* the requests being handled, each with its locals
    file,          \* the content of result.json
    writeOrder     \* the requests in the order their writes were done

vars == <<text, name, pc, about, headline, entries, entry, experience,
          education, projects, volunteering, skills, interests, data,
          calls, returned, apiKey, rq, file, writeOrder>>

\* What a call of scrapeLinkedInProfile leaves alone: the earlier calls
\* and the state of the server around it.
outer == <<calls, returned, apiKey, rq, file, writeOrder>>

---------------------------------------------------------------------------
(* Inputs: documents made of lines.                                        *)

MaxLines == 3

\* ""
LnEmpty ==
    <<>>

\* " "
LnBlank ==
    <<" ">>

\* "Ann"
LnAnn ==
    <<"A","n","n">>

\* "Ann Lee"
LnAnnLee ==
    <<"A","n","n"," ","L","e","e">>

\* "Dev"
LnDev ==
    <<"D","e","v">>

\* "## About"
LnAbout ==
    <<"#","#"," ","A","b","o","u","t">>

\* "Builds things."
LnBio ==
    <<"B","u","i","l","d","s"," ","t","h","i","n","g","s",".">>

\* "## Experience"
LnExperience ==
    <<"#","#"," ","E","x","p","e","r","i","e","n","c","e">>

\* "- ### Engineer at [Acme](https://a.co)"
LnExpLinked ==
    <<"-"," ","#","#","#"," ","E","n","g","i","n","e","e","r"," ","a","t",
      " ","[","A","c","m","e","]","(","h","t","t","p","s",":","/","/","a",
      ".","c","o",")">>

\* "## Education"
LnEducation ==
    <<"#","#"," ","E","d","u","c","a","t","i","o","n">>

\* "- ### B.S. || CS at [MIT](https://m.edu) 2015 - 2019"
LnEduFull ==
    <<"-"," ","#","#","#"," ","B",".","S","."," ","|","|"," ","C","S"," ",
      "a","t"," ","[","M","I","T","]","(","h","t","t","p","s",":","/","/",
      "m",".","e","d","u",")"," ","2","0","1","5"," ","-"," ","2","0","1",
      "9">>

\* "## Projects"
LnProjects ==
    <<"#","#"," ","P","r","o","j","e","c","t","s">>

\* "- ### Robot"
LnProjRobot ==
    <<"-"," ","#","#","#"," ","R","o","b","o","t">>

\* "## Volunteering"
LnVolunteering ==
    <<"#","#"," ","V","o","l","u","n","t","e","e","r","i","n","g">>

\* "- ### Tutor at [Club](https://c.org)"
LnVolLinked ==
    <<"-"," ","#","#","#"," ","T","u","t","o","r"," ","a","t"," ","[","C",
      "l","u","b","]","(","h","t","t","p","s",":","/","/","c",".","o","r",
      "g",")">>

\* "## Skills"
LnSkills ==
    <<"#","#"," ","S","k","i","l","l","s">>

\* "- Python"
LnPython ==
    <<"-"," ","P","y","t","h","o","n">>

\* "## Interests"
LnInterests ==
    <<"#","#"," ","I","n","t","e","r","e","s","t","s">>

\* "- [Go](https://g.io)"
LnIntLink ==
    <<"-"," ","[","G","o","]","(","h","t","t","p","s",":","/","/","g",".",
      "i","o",")">>

\* "- ### Volunteer"
LnExpVolunteer ==
    <<"-"," ","#","#","#"," ","V","o","l","u","n","t","e","e","r">>

\* "- ### Tutor at Club"
LnExpPlain ==
    <<"-"," ","#","#","#"," ","T","u","t","o","r"," ","a","t"," ","C","l",
      "u","b">>

\* "Engineer at Acme"
LnExpBare ==
    <<"E","n","g","i","n","e","e","r"," ","a","t"," ","A","c","m","e">>

\* "- ### Dean at [MIT](https://m.edu) at Yale"
LnEduBoth ==
    <<"-"," ","#","#","#"," ","D","e","a","n"," ","a","t"," ","[","M","I",
      "T","]","(","h","t","t","p","s",":","/","/","m",".","e","d","u",")",
      " ","a","t"," ","Y","a","l","e">>

\* "- ### BA, Art at Yale"
LnEduPlain ==
    <<"-"," ","#","#","#"," ","B","A",","," ","A","r","t"," ","a","t"," ",
      "Y","a","l","e">>

\* "- ### [MIT](https://m.edu)"
LnEduLinkOnly ==
    <<"-"," ","#","#","#"," ","[","M","I","T","]","(","h","t","t","p","s",
      ":","/","/","m",".","e","d","u",")">>

\* "Physics | Math"
LnEduDegreeLine ==
    <<"P","h","y","s","i","c","s"," ","|"," ","M","a","t","h">>

\* "- ### Some text with no 'at' separator"
LnEduMalformed ==
    <<"-"," ","#","#","#"," ","S","o","m","e"," ","t","e","x","t"," ","w",
      "i","t","h"," ","n","o"," ","'","a","t","'"," ","s","e","p","a","r",
      "a","t","o","r">>

\* "- ### MBA at  [INSEAD]"
LnEduNoSchool ==
    <<"-"," ","#","#","#"," ","M","B","A"," ","a","t"," "," ","[","I","N",
      "S","E","A","D","]">>

\* "- ### [ ](https://m.edu)"
LnEduBlankLabel ==
    <<"-"," ","#","#","#"," ","["," ","]","(","h","t","t","p","s",":","/",
      "/","m",".","e","d","u",")">>

\* "- ### Mentor at School"
LnVolPlain ==
    <<"-"," ","#","#","#"," ","M","e","n","t","o","r"," ","a","t"," ","S",
      "c","h","o","o","l">>

\* "- ** **Cook** at Shelter"
LnVolBold ==
    <<"-"," ","*","*"," ","*","*","C","o","o","k","*","*"," ","a","t"," ",
      "S","h","e","l","t","e","r">>

\* "- ### Helper"
LnVolNoOrg ==
    <<"-"," ","#","#","#"," ","H","e","l","p","e","r">>

\* "- ### Helper at [ ](https://c.org)"
LnVolBlankOrg ==
    <<"-"," ","#","#","#"," ","H","e","l","p","e","r"," ","a","t"," ","[",
      " ","]","(","h","t","t","p","s",":","/","/","c",".","o","r","g",")">>

\* "Cause: Kids 2020 - Present"
LnVolCause ==
    <<"C","a","u","s","e",":"," ","K","i","d","s"," ","2","0","2","0"," ",
      "-"," ","P","r","e","s","e","n","t">>

\* "- ### Coach at [Gym](http://g.com)"
LnVolHttp ==
    <<"-"," ","#","#","#"," ","C","o","a","c","h"," ","a","t"," ","[","G",
      "y","m","]","(","h","t","t","p",":","/","/","g",".","c","o","m",")">>

\* "- React"
LnReact ==
    <<"-"," ","R","e","a","c","t">>

\* "- **Python**"
LnBoldPython ==
    <<"-"," ","*","*","P","y","t","h","o","n","*","*">>

\* "Go, Rust, Go"
LnCommaSkills ==
    <<"G","o",","," ","R","u","s","t",","," ","G","o">>

\* "* Go"
LnStarGo ==
    <<"*"," ","G","o">>

\* "- Go"
LnIntGo ==
    <<"-"," ","G","o">>

\* "- Chess"
LnIntChess ==
    <<"-"," ","C","h","e","s","s">>

\* "[Chess](https://c.io)"
LnIntChessLink ==
    <<"[","C","h","e","s","s","]","(","h","t","t","p","s",":","/","/","c",
      ".","i","o",")">>

\* The documents of at most n lines drawn from lines, joined by "\n".
DocsOf(lines, n) ==
    UNION { {Join(ls, <<NL>>) : ls \in [1..k -> lines]} : k \in 0..n }

\* The documents that start with the line first and go on with at most n
\* lines drawn from lines.
DocsUnder(first, lines, n) ==
    {first \o <<NL>> \o d : d \in DocsOf(lines, n)}

\* A profile with every section.
FullProfile ==
    Join(<<LnAnn, LnDev, LnAbout, LnBio, LnExperience, LnExpLinked,
           LnEducation, LnEduFull, LnProjects, LnProjRobot,
           LnVolunteering, LnVolLinked, LnSkills, LnPython,
           LnInterests, LnIntLink>>, <<NL>>)

HeadlineLines == {LnEmpty, LnBlank, LnAnn, LnAnnLee, LnDev, LnAbout}
HeadlineDocs == DocsOf(HeadlineLines, MaxLines) \cup {FullProfile}
HeadlineNames == {<<>>, LnAnn}

SectionLines ==
    {LnExperience, LnEducation, LnSkills, LnExpVolunteer, LnExpPlain,
     LnExpBare, LnPython, LnEmpty}
SectionDocs == DocsOf(SectionLines, MaxLines) \cup {FullProfile}

EducationLines ==
    {LnEduFull, LnEduBoth, LnEduPlain, LnEduLinkOnly, LnEduDegreeLine,
     LnEduMalformed, LnEduNoSchool, LnEduBlankLabel}
EducationDocs == DocsUnder(LnEducation, EducationLines, MaxLines) \cup {FullProfile}

VolunteerLines ==
    {LnVolLinked, LnVolPlain, LnVolBold, LnVolNoOrg, LnVolBlankOrg,
     LnVolCause, LnVolHttp}
VolunteerDocs == DocsUnder(LnVolunteering, VolunteerLines, MaxLines) \cup {FullProfile}

\* "- **#tag**, C"
LnHashSkill ==
    <<"-"," ","*","*","#","t","a","g","*","*",","," ","C">>

SkillLines ==
    {LnPython, LnReact, LnBoldPython, LnCommaSkills, LnStarGo, LnHashSkill}
InterestLines == {LnIntLink, LnIntGo, LnIntChess, LnIntChessLink}
ListDocs ==
    DocsUnder(LnSkills, SkillLines, MaxLines)
    \cup DocsUnder(LnInterests, InterestLines, MaxLines)
    \cup {FullProfile}

\* "## Volunteer"
LnVolunteer ==
    <<"#","#"," ","V","o","l","u","n","t","e","e","r">>

\* "## VOLUNTEERING"
LnVolunteeringUpper ==
    <<"#","#"," ","V","O","L","U","N","T","E","E","R","I","N","G">>

\* "## Volunteer Experience"
LnVolunteerExperience ==
    <<"#","#"," ","V","o","l","u","n","t","e","e","r"," ","E","x","p","e",
      "r","i","e","n","c","e">>

\* "## Volunteering Experience"
LnVolunteeringExperience ==
    <<"#","#"," ","V","o","l","u","n","t","e","e","r","i","n","g"," ","E",
      "x","p","e","r","i","e","n","c","e">>

\* Documents that open with a volunteering header in one of its spellings.
AliasHeaders ==
    {LnVolunteer, LnVolunteering, LnVolunteeringUpper, LnVolunteerExperience,
     LnVolunteeringExperience}
AliasLines == {LnVolLinked, LnVolPlain, LnVolNoOrg}
AliasDocs ==
    UNION {DocsUnder(h, AliasLines, MaxLines) : h \in AliasHeaders}
    \cup {FullProfile}

\* Documents parsed one after another by the same process.
RepeatDocs ==
    {FullProfile,
     Join(<<LnEducation, LnEduPlain, LnSkills, LnPython>>, <<NL>>),
     Join(<<LnAnn, LnVolunteering, LnVolPlain>>, <<NL>>),
     <<>>}

---------------------------------------------------------------------------
(* The steps of scrapeLinkedInProfile, from the result of getContents on.  *)

Start(docs, names) ==
    /\ text \in docs
    /\ name \in names
    /\ pc = "about"
    /\ about = <<>>
    /\ headline = <<>>
    /\ entries = <<>>
    /\ entry = <<>>
    /\ experience = <<>>
    /\ education = <<>>
    /\ projects = <<>>
    /\ volunteering = <<>>
    /\ skills = <<>>
    /\ interests = <<>>
    /\ data = None
    /\ calls = 1
    /\ returned = {}
    /\ apiKey = TRUE
    /\ rq = <<>>
    /\ file = None
    /\ writeOrder = <<>>

\* aboutMatch?.[1]?.trim() || ""
AboutOf(t) ==
    IF HasSection(t, AboutAliases) THEN Trim(SectionBody(t, AboutAliases)) ELSE <<>>

ExtractAbout ==
    /\ pc = "about"
    /\ about' = AboutOf(text)
    /\ pc' = "headline"
    /\ UNCHANGED <<text, name, headline, entries, entry, experience, education,
                   projects, volunteering, skills, interests, data>>
    /\ UNCHANGED outer

\* text.split("\n").filter((l) => l.trim())
NonBlankLines(t) == FilterNonBlank(Split(t, {<<NL>>}))

\* lines[0] is undefined when there is no such line, and lines[0].trim()
\* then throws a TypeError, which the catch block logs and throws again.
ExtractHeadline ==
    /\ pc = "headline"
    /\ LET lines == NonBlankLines(text)
       IN  IF Len(lines) > 1 /\ Includes(lines[1], name)
           THEN headline' = Trim(lines[2]) /\ pc' = "experience"
           ELSE IF lines = <<>>
                THEN headline' = headline /\ pc' = "thrown"
                ELSE headline' = Trim(lines[1]) /\ pc' = "experience"
    /\ UNCHANGED <<text, name, about, entries, entry, experience, education,
                   projects, volunteering, skills, interests, data>>
    /\ UNCHANGED outer

\* The entry blocks of a section, none when the section pattern fails.
BlocksOfExperience(t) ==
    IF HasSection(t, ExperienceAliases)
    THEN ExperienceEntries(SectionBody(t, ExperienceAliases)) ELSE <<>>

BlocksOfEducation(t) ==
    IF HasSection(t, EducationAliases)
    THEN EducationEntries(SectionBody(t, EducationAliases)) ELSE <<>>

BlocksOfProjects(t) ==
    IF HasSection(t, ProjectAliases)
    THEN ProjectEntries(SectionBody(t, ProjectAliases)) ELSE <<>>

BlocksOfVolunteering(t) ==
    IF HasSection(t, VolunteerAliases)
    THEN VolunteerEntries(SectionBody(t, VolunteerAliases)) ELSE <<>>

\* for (const entry of entries): what is left after one iteration.
LoopRest(blocks) == Tail(blocks)

\* A parser is entered: its section is located and split, and its loop
\* is entered unless there is no block to visit.  The loop variable of
\* the parser before is out of scope.
EnterParser(at, blocks, loop, after) ==
    /\ pc = at
    /\ entries' = blocks
    /\ entry' = <<>>
    /\ pc' = IF blocks = <<>> THEN after ELSE loop

\* One iteration of a parser's loop; the parser returns after the last.
Iterate(loop, after) ==
    /\ pc = loop
    /\ entries # <<>>
    /\ entry' = Head(entries)
    /\ entries' = LoopRest(entries)
    /\ pc' = IF LoopRest(entries) = <<>> THEN after ELSE loop

WorkExperienceSection ==
    /\ EnterParser("experience", BlocksOfExperience(text), "experienceLoop", "education")
    /\ experience' = <<>>
    /\ UNCHANGED <<text, name, about, headline, education, projects,
                   volunteering, skills, interests, data>>
    /\ UNCHANGED outer

WorkExperienceEntry ==
    /\ Iterate("experienceLoop", "education")
    /\ experience' = experience \o ExperienceOfEntry(Head(entries))
    /\ UNCHANGED <<text, name, about, headline, education, projects,
                   volunteering, skills, interests, data>>
    /\ UNCHANGED outer

\* A variant of EducationSection with the array education kept across
\* calls, as if it were declared at module level.
EducationSectionKeeping ==
    /\ EnterParser("education", BlocksOfEducation(text), "educationLoop", "projects")
    /\ UNCHANGED <<text, name, about, headline, experience, education,
                   projects, volunteering, skills, interests, data>>
    /\ UNCHANGED outer

EducationSection ==
    /\ EnterParser("education", BlocksOfEducation(text), "educationLoop", "projects")
    /\ education' = <<>>
    /\ UNCHANGED <<text, name, about, headline, experience, projects,
                   volunteering, skills, interests, data>>
    /\ UNCHANGED outer

EducationEntry ==
    /\ Iterate("educationLoop", "projects")
    /\ education' = education \o EducationOfEntry(Head(entries))
    /\ UNCHANGED <<text, name, about, headline, experience, projects,
                   volunteering, skills, interests, data>>
    /\ UNCHANGED outer

ProjectsSection ==
    /\ EnterParser("projects", BlocksOfProjects(text), "projectsLoop", "volunteering")
    /\ projects' = <<>>
    /\ UNCHANGED <<text, name, about, headline, experience, education,
                   volunteering, skills, interests, data>>
    /\ UNCHANGED outer

ProjectsEntry ==
    /\ Iterate("projectsLoop", "volunteering")
    /\ projects' = projects \o ProjectOfEntry(Head(entries))
    /\ UNCHANGED <<text, name, about, headline, experience, education,
                   volunteering, skills, interests, data>>
    /\ UNCHANGED outer

VolunteeringSection ==
    /\ EnterParser("volunteering", BlocksOfVolunteering(text), "volunteeringLoop", "skills")
    /\ volunteering' = <<>>
    /\ UNCHANGED <<text, name, about, headline, experience, education,
                   projects, skills, interests, data>>
    /\ UNCHANGED outer

VolunteeringEntry ==
    /\ Iterate("volunteeringLoop", "skills")
    /\ volunteering' = volunteering \o VolunteerOfEntry(Head(entries))
    /\ UNCHANGED <<text, name, about, headline, experience, education,
                   projects, skills, interests, data>>
    /\ UNCHANGED outer

SkillsOf(t) ==
    IF HasSection(t, SkillAliases) THEN SkillsOfSection(SectionBody(t, SkillAliases))
    ELSE <<>>

InterestsOf(t) ==
    IF HasSection(t, InterestAliases)
    THEN InterestsOfSection(SectionBody(t, InterestAliases))
    ELSE <<>>

ParseSkills ==
    /\ pc = "skills"
    /\ skills' = SkillsOf(text)
    /\ pc' = "interests"
    /\ UNCHANGED <<text, name, about, headline, entries, entry, experience,
                   education, projects, volunteering, interests, data>>
    /\ UNCHANGED outer

ParseInterests ==
    /\ pc = "interests"
    /\ interests' = InterestsOf(text)
    /\ pc' = "construct"
    /\ UNCHANGED <<text, name, about, headline, entries, entry, experience,
                   education, projects, volunteering, skills, data>>
    /\ UNCHANGED outer

\* const data: ProfileData = {...}; return data
Construct ==
    /\ pc = "construct"
    /\ data' = Some([name |-> name, headline |-> headline, about |-> about,
                     experience |-> experience, education |-> education,
                     projects |-> projects, volunteering |-> volunteering,
                     skills |-> skills, interests |-> interests])
    /\ pc' = "done"
    /\ UNCHANGED <<text, name, about, headline, entries, entry, experience,
                   education, projects, volunteering, skills, interests>>
    /\ UNCHANGED outer

Next ==
    \/ ExtractAbout
    \/ ExtractHeadline
    \/ WorkExperienceSection
    \/ WorkExperienceEntry
    \/ EducationSection
    \/ EducationEntry
    \/ ProjectsSection
    \/ ProjectsEntry
    \/ VolunteeringSection
    \/ VolunteeringEntry
    \/ ParseSkills
    \/ ParseInterests
    \/ Construct

InitHeadline == Start(HeadlineDocs, HeadlineNames)
SpecHeadline == InitHeadline /\ [][Next]_vars

InitSections == Start(SectionDocs, {LnAnn})
SpecSections == InitSections /\ [][Next]_vars

InitEducation == Start(EducationDocs, {LnAnn})
SpecEducation == InitEducation /\ [][Next]_vars

InitVolunteering == Start(VolunteerDocs, {LnAnn})
SpecVolunteering == InitVolunteering /\ [][Next]_vars

InitLists == Start(ListDocs, {LnAnn})
SpecLists == InitLists /\ [][Next]_vars

InitAliases == Start(AliasDocs, {LnAnn})
SpecAliases == InitAliases /\ [][Next]_vars

Init == InitHeadline \/ InitSections \/ InitEducation \/ InitVolunteering \/ InitLists
Spec == Init /\ [][Next]_vars

---------------------------------------------------------------------------
(* Calls of scrapeLinkedInProfile one after another in one process.  The   *)
(* locals of a call come into being where the code declares them; until    *)
(* then the variables hold what the call before left in them.              *)

MaxCalls == 3

\* What a finished call resolved to; nothing when it threw.
Outcome == IF pc = "done" THEN data ELSE None

\* The next call, made once the one before has returned or thrown.
CallAgain ==
    /\ pc \in {"done", "thrown"}
    /\ calls < MaxCalls
    /\ returned' = returned \cup {<<text, name, Outcome>>}
    /\ calls' = calls + 1
    /\ text' \in RepeatDocs
    /\ name' = name
    /\ pc' = "about"
    /\ data' = None
    /\ UNCHANGED <<about, headline, entries, entry, experience, education,
                   projects, volunteering, skills, interests>>
    /\ UNCHANGED <<apiKey, rq, file, writeOrder>>

NextRepeated ==
    \/ Next
    \/ CallAgain

InitRepeated == Start(RepeatDocs, {LnAnn})
SpecRepeated == InitRepeated /\ [][NextRepeated]_vars



---------------------------------------------------------------------------
(* A call of scrapeLinkedInProfile taken whole, as the controller sees it: *)
(* the parsing after getContents has no await in it.                       *)

RECURSIVE ExperienceOfBlocks(_)
ExperienceOfBlocks(blocks) ==
    IF blocks = <<>> THEN <<>>
    ELSE ExperienceOfEntry(Head(blocks)) \o ExperienceOfBlocks(Tail(blocks))

RECURSIVE EducationOfBlocks(_)
EducationOfBlocks(blocks) ==
    IF blocks = <<>> THEN <<>>
    ELSE EducationOfEntry(Head(blocks)) \o EducationOfBlocks(Tail(blocks))

RECURSIVE ProjectsOfBlocks(_)
ProjectsOfBlocks(blocks) ==
    IF blocks = <<>> THEN <<>>
    ELSE ProjectOfEntry(Head(blocks)) \o ProjectsOfBlocks(Tail(blocks))

RECURSIVE VolunteeringOfBlocks(_)
VolunteeringOfBlocks(blocks) ==
    IF blocks = <<>> THEN <<>>
    ELSE VolunteerOfEntry(Head(blocks)) \o VolunteeringOfBlocks(Tail(blocks))

\* lines[0].trim() of the fallback branch throws when no line is left.
HeadlineThrows(t) == NonBlankLines(t) = <<>>

HeadlineOf(t, n) ==
    LET lines == NonBlankLines(t)
    IN  IF Len(lines) > 1 /\ Includes(lines[1], n) THEN Trim(lines[2])
        ELSE Trim(lines[1])

\* The record a call resolves to for the text and author of the first
\* result, when it does not throw.
ProfileOf(url, t, n) ==
    [name |-> n, headline |-> HeadlineOf(t, n), about |-> AboutOf(t),
     experience |-> ExperienceOfBlocks(BlocksOfExperience(t)),
     education |-> EducationOfBlocks(BlocksOfEducation(t)),
     projects |-> ProjectsOfBlocks(BlocksOfProjects(t)),
     volunteering |-> VolunteeringOfBlocks(BlocksOfVolunteering(t)),
     skills |-> SkillsOf(t), interests |-> InterestsOf(t), url |-> url]

---------------------------------------------------------------------------
(* The requests and what is outside the process: the content provider,     *)
(* the keyword and embedding services, the file system.                    *)

MaxRequests == 2
Requests == 1..MaxRequests

ProfilePath == <<"l","i","n","k","e","d","i","n",".","c","o","m","/","i","n","/">>

\* "https://linkedin.com/in/ann" and so on
UrlAnn == HttpsPrefix \o ProfilePath \o <<"a","n","n">>
UrlDev == HttpsPrefix \o ProfilePath \o <<"d","e","v">>
UrlGone == HttpsPrefix \o ProfilePath \o <<"g","o","n","e">>
UrlBlank == HttpsPrefix \o ProfilePath \o <<"b","l","a","n","k">>
\* "linkedin.com/in/ann", which is no absolute URL
UrlBare == ProfilePath \o <<"a","n","n">>
\* "https://example.com"
UrlOther == HttpsPrefix \o <<"e","x","a","m","p","l","e",".","c","o","m">>

\* What a client may send: the method, and the url query parameter (GET)
\* or the linkedinUrl of the body (POST); <<>> when it is missing.
RequestInputs ==
    {<<"POST", UrlAnn>>, <<"GET", UrlDev>>, <<"POST", UrlGone>>,
     <<"GET", UrlBlank>>, <<"GET", UrlBare>>, <<"POST", UrlBare>>,
     <<"GET", UrlOther>>, <<"GET", <<>> >>, <<"POST", <<>> >>}

\* result.results of exa.getContents([url], { text: true }): the provider
\* has a page for two of the profiles, a page without text for a third,
\* and nothing for any other url.
ExaResults(url) ==
    IF url = UrlAnn
    THEN << [text |-> Join(<<LnAnn, LnDev, LnSkills, LnPython>>, <<NL>>),
             author |-> LnAnn] >>
    ELSE IF url = UrlDev
    THEN << [text |-> Join(<<LnDev, LnVolunteering, LnVolPlain>>, <<NL>>),
             author |-> LnDev] >>
    ELSE IF url = UrlBlank
    THEN << [text |-> <<>>, author |-> <<>>] >>
    ELSE <<>>

\* What extractKeywords may resolve to for a profile: keywords drawn from
\* it, or the empty list (also when the call or the parsing of its answer
\* fails, which the catch block turns into []).
KeywordOutcomes(profile) == { <<>>, <<profile.name, profile.headline>> }

\* The vector the embedding service gives for a list of keywords.
VectorOf(keywords) == << [of |-> Join(keywords, <<" ">>)] >>

\* The errors thrown, as the catch block of the controller tells them
\* apart: an Error carries a message.
ErrorOf(message) == [isError |-> TRUE, message |-> message]
MissingKeyError == ErrorOf("EXASEARCH_API_KEY is missing in .env file.")
NoResultsError == ErrorOf("No results from Exa")
TrimTypeError == ErrorOf("Cannot read properties of undefined (reading 'trim')")
EmbeddingError == ErrorOf("embeddings.create failed")
WriteError == ErrorOf("writeFile failed")

\* error instanceof Error ? error.message : "Internal Server Error"
ErrorMessage(error) == IF error.isError THEN error.message ELSE "Internal Server Error"

\* JSON.stringify(result, null, 2), as the lines of the file: one for the
\* profile, one for each keyword, one for each number of the embedding.
Serialize(result) ==
    << <<"profile", result.profile>> >>
    \o [i \in 1..Len(result.keywords) |-> <<"keyword", result.keywords[i]>>]
    \o [i \in 1..Len(result.embedding) |-> <<"embedding", result.embedding[i]>>]

\* A write of data at the start of a file that holds old: what is behind
\* the data written stays.
Overlay(new, old) == new \o SubSeq(old, Len(new) + 1, Len(old))

---------------------------------------------------------------------------
(* The routes of app.ts and the controller scrapeProfile.  A step runs     *)
(* from one await to the next; requests interleave at the awaits.          *)

\* The state of the process that a request handler leaves alone: no call
\* of scrapeLinkedInProfile is stepped through on its own here.
call == <<text, name, pc, about, headline, entries, entry, experience,
          education, projects, volunteering, skills, interests, data,
          calls, returned>>

NewRequest ==
    [pc |-> "new", method |-> "", url |-> <<>>, profile |-> None,
     keywords |-> None, embedding |-> None, written |-> None,
     error |-> None, provider |-> 0, responses |-> <<>>, log |-> <<>>]

\* res.status(status).json(body): the handler ends with it.
Answer(q, status, body) ==
    [q EXCEPT !.responses = Append(@, [status |-> status, body |-> body]),
              !.pc = "responded"]

\* The catch block of the controller.
Caught(q, error) ==
    Answer([q EXCEPT !.error = Some(error), !.log = Append(@, "send")],
           500, [success |-> FALSE, error |-> ErrorMessage(error)])

\* A variant of scrapeLinkedInProfile that calls the provider without
\* looking at the key.
ScrapeStartsUnchecked(q) == [q EXCEPT !.provider = @ + 1, !.pc = "exa"]

\* scrapeLinkedInProfile up to its await: the key is looked at first.
ScrapeStarts(q) ==
    IF ~apiKey THEN Caught(q, MissingKeyError)
    ELSE [q EXCEPT !.provider = @ + 1, !.pc = "exa"]

\* The controller from its entry to its first await.
Controller(q, url) ==
    ScrapeStarts([q EXCEPT !.url = url, !.log = Append(@, "scrape")])

\* z.string().url(): the string parses as an absolute URL, taken here as
\* its having a scheme followed by "://".
IsUrl(u) == \E i \in 2..Len(u) : MatchAt(u, i, <<":","/","/">>)

\* scrapeProfileSchema
SchemaAccepts(u) == u # <<>> /\ IsUrl(u) /\ Includes(u, ProfilePath)

\* app.post(..., validate(scrapeProfileSchema), scrapeProfile)
PostRoute(q, u) ==
    IF SchemaAccepts(u) THEN Controller(q, u)
    ELSE Answer(q, 400, [errors |-> "ZodError"])

\* app.get("/api/v1/profile/scrape", ...)
GetRoute(q, u) ==
    IF u = <<>>
    THEN Answer(q, 400, [success |-> FALSE, error |-> "Missing 'url' query parameter"])
    ELSE IF ~Includes(u, ProfilePath)
    THEN Answer(q, 400, [success |-> FALSE, error |-> "Invalid LinkedIn profile URL"])
    ELSE Controller(q, u)

Receive(r) ==
    /\ rq[r].pc = "new"
    /\ \E in \in RequestInputs :
          rq' = [rq EXCEPT ![r] =
                    IF in[1] = "GET"
                    THEN GetRoute([rq[r] EXCEPT !.method = in[1]], in[2])
                    ELSE PostRoute([rq[r] EXCEPT !.method = in[1]], in[2])]
    /\ UNCHANGED <<apiKey, file, writeOrder>>
    /\ UNCHANGED call

\* scrapeLinkedInProfile from the answer of getContents on, and the
\* controller up to the call of extractKeywords.
Scraped(q) ==
    LET results == ExaResults(q.url)
    IN  IF results = <<>> THEN Caught(q, NoResultsError)
        ELSE IF HeadlineThrows(results[1].text) THEN Caught(q, TrimTypeError)
        ELSE [q EXCEPT !.profile = Some(ProfileOf(q.url, results[1].text,
                                                  results[1].author)),
                       !.log = Append(@, "keywords"),
                       !.pc = "keywords"]

ExaReturns(r) ==
    /\ rq[r].pc = "exa"
    /\ rq' = [rq EXCEPT ![r] = Scraped(rq[r])]
    /\ UNCHANGED <<apiKey, file, writeOrder>>
    /\ UNCHANGED call

\* extractKeywords resolves (it never rejects), generateEmbedding is called.
KeywordsReturn(r) ==
    /\ rq[r].pc = "keywords"
    /\ \E k \in KeywordOutcomes(rq[r].profile[1]) :
          rq' = [rq EXCEPT ![r] = [@ EXCEPT !.keywords = Some(k),
                                            !.log = Append(@, "embedding"),
                                            !.pc = "embedding"]]
    /\ UNCHANGED <<apiKey, file, writeOrder>>
    /\ UNCHANGED call

\* A variant that answers as soon as the embedding is there, the file
\* left for later.
EmbeddedAnswering(q) ==
    Answer([q EXCEPT !.embedding = Some(VectorOf(q.keywords[1])),
                     !.log = Append(@, "send")],
           200, [success |-> TRUE,
                 data |-> [profile |-> q.profile[1], keywords |-> q.keywords[1],
                           embedding |-> VectorOf(q.keywords[1])]])

\* The result object is built and fs.writeFile is called.
Embedded(q) ==
    [q EXCEPT !.embedding = Some(VectorOf(q.keywords[1])),
              !.log = Append(@, "write"),
              !.pc = "open"]

ResultOf(q) ==
    [profile |-> q.profile[1], keywords |-> q.keywords[1],
     embedding |-> q.embedding[1]]

EmbeddingReturns(r) ==
    /\ rq[r].pc = "embedding"
    /\ rq' = [rq EXCEPT ![r] = Embedded(rq[r])]
    /\ UNCHANGED <<apiKey, file, writeOrder>>
    /\ UNCHANGED call

\* embeddings.create rejects: generateEmbedding logs and throws again.
EmbeddingFails(r) ==
    /\ rq[r].pc = "embedding"
    /\ rq' = [rq EXCEPT ![r] = Caught(rq[r], EmbeddingError)]
    /\ UNCHANGED <<apiKey, file, writeOrder>>
    /\ UNCHANGED call

\* fs.writeFile opens the file for writing, which empties it.
FileOpened(r) ==
    /\ rq[r].pc = "open"
    /\ file' = Some(<<>>)
    /\ rq' = [rq EXCEPT ![r] = [@ EXCEPT !.pc = "write"]]
    /\ UNCHANGED <<apiKey, writeOrder>>
    /\ UNCHANGED call

FileOpenFails(r) ==
    /\ rq[r].pc = "open"
    /\ rq' = [rq EXCEPT ![r] = Caught(rq[r], WriteError)]
    /\ UNCHANGED <<apiKey, file, writeOrder>>
    /\ UNCHANGED call

\* fs.writeFile writes its data from the start of the file it opened.
FileWritten(r) ==
    /\ rq[r].pc = "write"
    /\ file' = Some(Overlay(Serialize(ResultOf(rq[r])), file[1]))
    /\ writeOrder' = Append(writeOrder, r)
    /\ rq' = [rq EXCEPT ![r] = [@ EXCEPT !.written = Some(ResultOf(rq[r])),
                                        !.pc = "respond"]]
    /\ UNCHANGED apiKey
    /\ UNCHANGED call

\* The promise of fs.writeFile is fulfilled: res.json({success, data}).
Respond(r) ==
    /\ rq[r].pc = "respond"
    /\ rq' = [rq EXCEPT ![r] =
                 Answer([@ EXCEPT !.log = Append(@, "send")],
                        200, [success |-> TRUE, data |-> ResultOf(rq[r])])]
    /\ UNCHANGED <<apiKey, file, writeOrder>>
    /\ UNCHANGED call

NextServer ==
    \E r \in Requests :
        \/ Receive(r)
        \/ ExaReturns(r)
        \/ KeywordsReturn(r)
        \/ EmbeddingReturns(r)
        \/ EmbeddingFails(r)
        \/ FileOpened(r)
        \/ FileOpenFails(r)
        \/ FileWritten(r)
        \/ Respond(r)

InitServer ==
    /\ text = <<>>
    /\ name = <<>>
    /\ pc = "idle"
    /\ about = <<>>
    /\ headline = <<>>
    /\ entries = <<>>
    /\ entry = <<>>
    /\ experience = <<>>
    /\ education = <<>>
    /\ projects = <<>>
    /\ volunteering = <<>>
    /\ skills = <<>>
    /\ interests = <<>>
    /\ data = None
    /\ calls = 0
    /\ returned = {}
    /\ apiKey \in BOOLEAN
    /\ rq = [r \in Requests |-> NewRequest]
    /\ file = None
    /\ writeOrder = <<>>

SpecServer == InitServer /\ [][NextServer]_vars

---------------------------------------------------------------------------
(* Properties.                                                             *)

Last(seq) == seq[Len(seq)]

\* The lines of a document.
LinesOf(t) == Split(t, {<<NL>>})

\* The first line of an entry block.
FirstLine(e) == Slice(e, 1, RunNotIn(e, 1, {NL}))

\* A line that is a top-level header: it starts with "## ".
IsTopLevelHeader(line) == StartsWith(line, H2)

\* A line that is the header of a section: "## " and then exactly one of
\* the section's aliases, compared case-insensitively.
IsHeaderOf(line, aliases) ==
    \E a \in aliases : Len(line) = Len(H2 \o a) /\ MatchAtI(line, 1, H2 \o a)

HasHeaderLine(t, aliases) ==
    \E i \in 1..Len(LinesOf(t)) : IsHeaderOf(LinesOf(t)[i], aliases)

\* C1: parsing is total: for every raw text and author name the call
\* returns a record with every field defined and never throws.
C1_ParsingIsTotal ==
    /\ pc # "thrown"
    /\ pc = "done" => data # None

\* C10: the headline is the trimmed second non-empty line when there are
\* at least two such lines and the first contains the author name, the
\* trimmed first line in every other case, and the empty string when
\* there is no line to take.
ClaimedHeadline(t, n) ==
    LET lines == NonBlankLines(t)
    IN  IF Len(lines) >= 2 /\ Includes(lines[1], n) THEN Trim(lines[2])
        ELSE IF lines # <<>> THEN Trim(lines[1])
        ELSE <<>>

C10_HeadlineHeuristic ==
    pc \notin {"about", "headline"} =>
        pc # "thrown" /\ headline = ClaimedHeadline(text, name)

\* C2: when the document has no header line of a section, that field of
\* the returned record is empty (the empty string for about).
C2_AbsentSectionIsEmpty ==
    pc = "done" =>
        /\ ~HasHeaderLine(text, ExperienceAliases) => data[1].experience = <<>>
        /\ ~HasHeaderLine(text, EducationAliases) => data[1].education = <<>>
        /\ ~HasHeaderLine(text, ProjectAliases) => data[1].projects = <<>>
        /\ ~HasHeaderLine(text, VolunteerAliases) => data[1].volunteering = <<>>
        /\ ~HasHeaderLine(text, SkillAliases) => data[1].skills = <<>>
        /\ ~HasHeaderLine(text, InterestAliases) => data[1].interests = <<>>
        /\ ~HasHeaderLine(text, AboutAliases) => data[1].about = <<>>

\* C3: the body located for a section never contains a top-level header
\* line, also when the matching header is directly followed by another
\* top-level header.
SectionKinds ==
    {ExperienceAliases, EducationAliases, ProjectAliases, VolunteerAliases,
     SkillAliases, InterestAliases, AboutAliases}

BodyHasNoHeader(t, aliases) ==
    HasSection(t, aliases) =>
        \A i \in 1..Len(LinesOf(SectionBody(t, aliases))) :
            ~IsTopLevelHeader(LinesOf(SectionBody(t, aliases))[i])

C3_BodyEndsAtNextHeader ==
    pc = "done" => \A k \in SectionKinds : BodyHasNoHeader(text, k)

\* C4: in the entry-split sections a non-empty body without any entry
\* marker yields no entry block, and so no output entry: the body is
\* never taken as one entry.
HasItemMarker(body, markers) == \E q \in 1..Len(body) : SepLenAt(body, q, markers) > 0
HasEduMarker(body) == \E q \in 1..Len(body) : EduMarkerEnd(body, q) > 0

MarkerlessBody(t, aliases) ==
    HasSection(t, aliases) /\ SectionBody(t, aliases) # <<>>

C4_NoMarkerNoEntries ==
    pc = "done" =>
        /\ (MarkerlessBody(text, ExperienceAliases)
            /\ ~HasItemMarker(SectionBody(text, ExperienceAliases), ExperienceMarkers))
           => data[1].experience = <<>>
        /\ (MarkerlessBody(text, EducationAliases)
            /\ ~HasEduMarker(SectionBody(text, EducationAliases)))
           => data[1].education = <<>>
        /\ (MarkerlessBody(text, ProjectAliases)
            /\ ~HasItemMarker(SectionBody(text, ProjectAliases), ItemMarkers))
           => data[1].projects = <<>>
        /\ (MarkerlessBody(text, VolunteerAliases)
            /\ ~HasItemMarker(SectionBody(text, VolunteerAliases), ItemMarkers))
           => data[1].volunteering = <<>>

\* An education block has just been visited by the loop of parseEducation.
EducationVisited == pc \in {"educationLoop", "projects"} /\ entry # <<>>

\* A block with no "at" between white space and no markdown link.
NoAtSeparator(e) ==
    ~\E i \in 1..Len(e) :
        /\ e[i] \in SpaceChars
        /\ MatchAt(e, i + 1, <<"a","t">>)
        /\ i + 3 <= Len(e)
        /\ e[i + 3] \in SpaceChars
NoLinkIn(e) == ~\E i \in 1..Len(e) : LinkAt(e, i, <<>>, 0).ok
MalformedEducation(e) == NoAtSeparator(e) /\ NoLinkIn(e)

\* C5, as stated: a malformed education block (no "at" separator, no
\* markdown link) is dropped, the visit of it adds nothing to the list.
C5_MalformedEntryDropped ==
    [][(pc = "educationLoop" /\ MalformedEducation(Head(entries)))
        => education' = education]_vars

\* C5, amended: a malformed education block whose first line is not blank
\* is not dropped: the visit of it adds one entry whose school is the
\* trimmed first line of the block, with degree, fieldOfStudy and
\* schoolUrl absent.
C5_MalformedEntryKeptAsSchool ==
    [][(/\ pc = "educationLoop"
        /\ MalformedEducation(Head(entries))
        /\ Trim(FirstLine(Head(entries))) # <<>>)
        => /\ Len(education') = Len(education) + 1
           /\ SubSeq(education', 1, Len(education)) = education
           /\ Last(education').school = Trim(FirstLine(Head(entries)))
           /\ Last(education').degree = None
           /\ Last(education').fieldOfStudy = None
           /\ Last(education').schoolUrl = None]_vars

C5_Witness ==
    /\ EducationVisited
    /\ entry = SubSeq(LnEduMalformed, 7, Len(LnEduMalformed))
    /\ MalformedEducation(entry)
    /\ education # <<>>
    /\ Last(education).school = entry

\* C6: every education entry, in the running list and in the returned
\* record, has a school that is not empty, whichever tier matched.
C6_SchoolNeverEmpty ==
    /\ \A i \in 1..Len(education) : Trim(education[i].school) # <<>>
    /\ data # None =>
         \A i \in 1..Len(data[1].education) : data[1].education[i].school # <<>>

\* A block matched by one of the tiers with an empty school was visited
\* after an entry had been pushed, and the list is as it was.
C6_Witness ==
    /\ EducationVisited
    /\ EduTier(entry) \in 1..3
    /\ EduFields(entry).school = <<>>
    /\ education # <<>>

\* C7: every volunteer entry has a role and an organization that are not
\* empty; a block for which either is empty, or which no matcher matches,
\* is dropped, and the blocks after it are still visited in document
\* order: the list the parser returns is that of the other blocks, in
\* their order.
VolunteerKept(b) == VolFields(b).role # <<>> /\ VolFields(b).organization # <<>>

RECURSIVE KeptVolunteers(_)
KeptVolunteers(blocks) ==
    IF blocks = <<>> THEN <<>>
    ELSE (IF VolunteerKept(Head(blocks))
          THEN << <<VolFields(Head(blocks)).role,
                    VolFields(Head(blocks)).organization>> >>
          ELSE <<>>)
         \o KeptVolunteers(Tail(blocks))

RECURSIVE RolesAndOrganizations(_)
RolesAndOrganizations(list) ==
    IF list = <<>> THEN <<>>
    ELSE << <<Head(list).role, Head(list).organization>> >>
         \o RolesAndOrganizations(Tail(list))

C7_VolunteerRoleAndOrganization ==
    /\ \A i \in 1..Len(volunteering) :
          volunteering[i].role # <<>> /\ volunteering[i].organization # <<>>
    /\ pc \in {"skills", "interests", "construct", "done"} =>
          RolesAndOrganizations(volunteering)
              = KeptVolunteers(BlocksOfVolunteering(text))

\* A returned list that lacks a dropped block and has a block after it.
C7_Witness ==
    /\ pc = "done"
    /\ volunteering # <<>>
    /\ LET blocks == BlocksOfVolunteering(text)
       IN  \E i \in 1..Len(blocks) : \E j \in (i + 1)..Len(blocks) :
               ~VolunteerKept(blocks[i]) /\ VolunteerKept(blocks[j])

\* C8: the education tiers are tried in the order 1, 2, 3, 4, and a later
\* one only when every earlier one failed: for a visited block that both
\* the linked (tier 1) and the plain (tier 2) "at" pattern match, the
\* entry pushed has the link label as school and the link target as
\* schoolUrl; tier 2 gives the school only when tier 1 fails, tier 3 only
\* when tiers 1 and 2 fail, and tier 4 only when tiers 1 to 3 fail.
EduLinkedMatches(e) == EduLinkedK(e) # {}
EduPlainMatches(e) == EduPlainK(e) # {}
EduLinkOnlyMatches(e) == LinkAt(e, 1, <<>>, 0).ok
EduLinkedSchool(e) == Trim(EduLinkedLink(e, Min(EduLinkedK(e))).label)
EduLinkedUrl(e) == OrUndefined(EduLinkedLink(e, Min(EduLinkedK(e))).url)
EduPlainSchoolOf(e) == Trim(EduPlainSchool(e, Min(EduPlainK(e))))

PushedSchoolIs(school, url) ==
    school # <<>> =>
        /\ education # <<>>
        /\ Last(education).school = school
        /\ Last(education).schoolUrl = url

C8_EducationTierPrecedence ==
    EducationVisited =>
        /\ EduLinkedMatches(entry)
           => PushedSchoolIs(EduLinkedSchool(entry), EduLinkedUrl(entry))
        /\ (~EduLinkedMatches(entry) /\ EduPlainMatches(entry))
           => PushedSchoolIs(EduPlainSchoolOf(entry), None)
        /\ (~EduLinkedMatches(entry) /\ ~EduPlainMatches(entry)
            /\ EduLinkOnlyMatches(entry))
           => PushedSchoolIs(Trim(LinkAt(entry, 1, <<>>, 0).label),
                             OrUndefined(LinkAt(entry, 1, <<>>, 0).url))
        /\ (~EduLinkedMatches(entry) /\ ~EduPlainMatches(entry)
            /\ ~EduLinkOnlyMatches(entry))
           => PushedSchoolIs(Trim(FirstLine(entry)), None)

\* A visited block that both patterns match, with different schools.
C8_Witness ==
    /\ EducationVisited
    /\ EduLinkedMatches(entry)
    /\ EduPlainMatches(entry)
    /\ EduPlainSchoolOf(entry) # <<>>
    /\ EduPlainSchoolOf(entry) # EduLinkedSchool(entry)
    /\ Last(education).school = EduLinkedSchool(entry)

\* C9: skills and interests each hold no two equal elements, and each is
\* the subsequence of its candidates that keeps the first occurrence of
\* every value, in the candidates' order.
NoDuplicates(seq) ==
    \A i \in 1..Len(seq) : \A j \in 1..Len(seq) : seq[i] = seq[j] => i = j

\* The positions of the first occurrences in cand.
FirstPositions(cand) ==
    {i \in 1..Len(cand) : \A j \in 1..(i - 1) : cand[j] # cand[i]}

IsFirstOccurrences(out, cand) ==
    /\ Len(out) = Cardinality(FirstPositions(cand))
    /\ \A i \in FirstPositions(cand) :
          out[Cardinality({j \in FirstPositions(cand) : j <= i})] = cand[i]

SkillCandidatesOf(t) ==
    IF HasSection(t, SkillAliases) THEN SkillCandidates(SectionBody(t, SkillAliases))
    ELSE <<>>

InterestCandidatesOf(t) ==
    IF HasSection(t, InterestAliases)
    THEN InterestCandidates(SectionBody(t, InterestAliases))
    ELSE <<>>

C9_DedupLaw ==
    /\ pc \in {"interests", "construct", "done"} =>
          NoDuplicates(skills) /\ IsFirstOccurrences(skills, SkillCandidatesOf(text))
    /\ pc \in {"construct", "done"} =>
          NoDuplicates(interests)
          /\ IsFirstOccurrences(interests, InterestCandidatesOf(text))

\* Candidates with a duplicate that is not next to its first occurrence.
C9_Witness ==
    /\ pc = "done"
    /\ LET c == SkillCandidatesOf(text)
       IN  /\ Len(c) >= 3
           /\ c[1] = c[3]
           /\ c[1] # c[2]
           /\ Len(skills) < Len(c)

\* C11: the volunteering header is recognised, in any letter case, in
\* each of the spellings "Volunteer", "Volunteering", "Volunteer
\* Experience" and "Volunteering Experience": a document that opens with
\* such a header has its volunteering section located: the entries under
\* the header are the ones the returned record holds.
ClaimedVolunteerAliases ==
    {SubSeq(LnVolunteer, 4, Len(LnVolunteer)),
     SubSeq(LnVolunteering, 4, Len(LnVolunteering)),
     SubSeq(LnVolunteerExperience, 4, Len(LnVolunteerExperience)),
     SubSeq(LnVolunteeringExperience, 4, Len(LnVolunteeringExperience))}

AfterFirstLine(t) == Slice(t, Len(FirstLine(t)) + 2, Len(t))

C11_VolunteerAliasesRecognized ==
    (pc = "done" /\ IsHeaderOf(FirstLine(text), ClaimedVolunteerAliases)) =>
        RolesAndOrganizations(data[1].volunteering)
            = KeptVolunteers(VolunteerEntries(AfterFirstLine(text)))

\* C12: for every volunteering block of the linked form
\* "<role> at [<organization>](<url>)" the entry pushed has the link label
\* as organization and the link target as organizationUrl, and
\* organizationUrl is absent exactly when the block is of the plain form.
VolunteerVisited == pc \in {"volunteeringLoop", "skills"} /\ entry # <<>>

\* Where the " at " of a linked form may stand: a markdown link with any
\* target follows it.
VolLinkedFormK(e) ==
    {k \in 1..FirstLineLen(e) :
        MatchAt(e, k + 1, <<" ","a","t"," ">>) /\ LinkAt(e, k + 5, <<>>, 1).ok}

VolLinkedFormLink(e) == LinkAt(e, Min(VolLinkedFormK(e)) + 5, <<>>, 1)

C12_LinkedVolunteerOrganization ==
    (VolunteerVisited /\ VolunteerOfEntry(entry) # <<>>) =>
        /\ volunteering # <<>>
        /\ VolLinkedFormK(entry) # {} =>
              /\ Last(volunteering).organization
                     = Trim(VolLinkedFormLink(entry).label)
              /\ Last(volunteering).organizationUrl
                     = Some(VolLinkedFormLink(entry).url)
        /\ (Last(volunteering).organizationUrl = None)
              <=> (VolLinkedFormK(entry) = {} /\ PlainK(entry) # {})

\* C15: when the bullet pass over the skills section yields a skill, the
\* output holds the skills of the bullet pass and nothing of the comma and
\* newline fallback; the fallback gives the output only when the bullet
\* pass yields nothing; no output element is empty or begins with "#".
Range(seq) == {seq[i] : i \in 1..Len(seq)}

SkillsBody(t) == IF HasSection(t, SkillAliases) THEN SectionBody(t, SkillAliases) ELSE <<>>

C15_SkillsStrategyOrder ==
    pc \in {"interests", "construct", "done"} =>
        /\ SkillBullets(SkillsBody(text)) # <<>>
              => Range(skills) = Range(SkillBullets(SkillsBody(text)))
        /\ SkillBullets(SkillsBody(text)) = <<>>
              => Range(skills) = Range(SkillFallback(SkillsBody(text)))
        /\ \A i \in 1..Len(skills) :
              skills[i] # <<>> /\ skills[i][1] # "#"

\* The bullet pass yielded a skill where the fallback had a fragment of
\* its own to give, and a record was returned.
C15_Witness ==
    /\ pc = "done"
    /\ SkillBullets(SkillsBody(text)) # <<>>
    /\ \E x \in Range(SkillFallback(SkillsBody(text))) :
          x \notin Range(SkillBullets(SkillsBody(text)))
    /\ \E i \in 1..Len(LinesOf(SkillsBody(text))) :
          StartsWith(LinesOf(SkillsBody(text))[i], <<"-"," ","*","*","#">>)
    /\ data[1].skills = Dedupe(SkillBullets(SkillsBody(text)))

\* C13: a call given the raw text and author name of an earlier call of
\* the same process ends as that call did, with an equal record, whatever
\* was parsed in between: no call leaves behind state that a later call
\* reads.
C13_ParsingIsDeterministic ==
    pc \in {"done", "thrown"} =>
        \A h \in returned : (h[1] = text /\ h[2] = name) => h[3] = Outcome

\* A third call returned the record of the first, with entries in it,
\* after a call on another document that has entries too.
C13_Witness ==
    /\ pc = "done"
    /\ calls = 3
    /\ data[1].education # <<>>
    /\ <<text, name, data>> \in returned
    /\ \E h \in returned :
          h[1] # text /\ h[3] # None /\ h[3][1].education # <<>>

\* The response a request was sent, and what the provider has for it.
ResponseOf(r) == rq[r].responses[1]
Succeeded(r) == rq[r].responses # <<>> /\ ResponseOf(r).status = 200
AllResponded == \A r \in Requests : rq[r].pc = "responded"

\* C14: under any interleaving, the success response of a request carries
\* the profile scraped from that request's own url, keywords extracted
\* from that profile and the embedding of those keywords; and once every
\* request has been answered, result.json holds the result of the request
\* whose write was done last.
C14_RequestsAreIsolated ==
    /\ \A r \in Requests :
          Succeeded(r) =>
              LET d == ResponseOf(r).body.data
                  results == ExaResults(rq[r].url)
              IN  /\ results # <<>>
                  /\ d.profile = ProfileOf(rq[r].url, results[1].text,
                                           results[1].author)
                  /\ d.keywords \in KeywordOutcomes(d.profile)
                  /\ d.embedding = VectorOf(d.keywords)
    /\ (AllResponded /\ writeOrder # <<>>) =>
          file = Some(Serialize(rq[Last(writeOrder)].written[1]))

\* C16: the steps of the controller occur in the order scrape, extract
\* keywords, generate embedding, write result.json, send response; a
\* request is sent one response, and a success response only after the
\* request has written result.json with the result the response carries.
Pipeline == <<"scrape", "keywords", "embedding", "write", "send">>
Rank(step) == CHOOSE i \in 1..Len(Pipeline) : Pipeline[i] = step
InPipelineOrder(log) ==
    \A i \in 1..Len(log) : \A j \in 1..Len(log) :
        i < j => Rank(log[i]) < Rank(log[j])

C16_PipelineOrder ==
    \A r \in Requests :
        /\ InPipelineOrder(rq[r].log)
        /\ Len(rq[r].responses) <= 1
        /\ rq[r].pc = "responded" <=> Len(rq[r].responses) = 1
        /\ (rq[r].responses # <<>> /\ rq[r].log # <<>>) => Last(rq[r].log) = "send"
        /\ Succeeded(r) =>
              /\ rq[r].log = Pipeline
              /\ ResponseOf(r).body.success
              /\ rq[r].written = Some(ResponseOf(r).body.data)
              /\ r \in Range(writeOrder)

\* A POST and a GET were both answered with success.
C16_Witness ==
    \E r \in Requests : \E o \in Requests :
        /\ rq[r].method = "POST" /\ Succeeded(r)
        /\ rq[o].method = "GET" /\ Succeeded(o)
        /\ rq[o].log = Pipeline

\* C17: when the scrape fails, for want of the API key or of results, or
\* the embedding generation fails, the request is sent one response, of
\* status 500 with success: false and the message of the error, and it
\* writes nothing to result.json; without the API key the provider is not
\* called.
FailedWith(r, error) ==
    /\ rq[r].responses
          = << [status |-> 500,
                body |-> [success |-> FALSE, error |-> error.message]] >>
    /\ rq[r].written = None
    /\ "write" \notin Range(rq[r].log)
    /\ r \notin Range(writeOrder)

C17_FailureAnswers500 ==
    \A r \in Requests :
        /\ (~apiKey /\ rq[r].log # <<>>)
              => FailedWith(r, MissingKeyError) /\ rq[r].provider = 0
        /\ (apiKey /\ rq[r].log # <<>> /\ rq[r].pc # "exa"
            /\ ExaResults(rq[r].url) = <<>>)
              => FailedWith(r, NoResultsError)
        /\ rq[r].error = Some(EmbeddingError)
              => FailedWith(r, EmbeddingError)

\* One request failed for want of results and another in the embedding,
\* after a third party wrote nothing: the file does not exist.
C17_Witness ==
    /\ file = None
    /\ \E r \in Requests : \E o \in Requests :
          /\ rq[r].error = Some(EmbeddingError) /\ rq[r].pc = "responded"
          /\ rq[o].error = Some(NoResultsError) /\ rq[o].pc = "responded"

\* C18: a request whose keyword extraction gave the empty list ends in a
\* success response that carries the empty keyword list and an embedding,
\* not in an error response (the failure of the file write set aside).
C18_EmptyKeywordsSucceed ==
    \A r \in Requests :
        (/\ rq[r].pc = "responded"
         /\ rq[r].keywords = Some(<<>>)
         /\ rq[r].error # Some(WriteError))
        => /\ Succeeded(r)
           /\ ResponseOf(r).body.success
           /\ ResponseOf(r).body.data.keywords = <<>>

============================================================================
